---- MODULE Spec2Model ----
(***************************************************************************)
(* Attribute layer of DS.Model (packages/ember-data/lib/system/model/      *)
(* attributes.js): the per-record value resolution of DS.attr over the     *)
(* three layers _attributes (local), _inFlightAttributes (inFlight) and    *)
(* _data (persisted), and the per-class attribute registry.                *)
(***************************************************************************)
EXTENDS Integers, Sequences, FiniteSets, TLC

VARIABLES
  _attributes,          \* record._attributes: local, uncommitted edits
  _inFlightAttributes,  \* record._inFlightAttributes: values being saved
  _data,                \* record._data: last persisted values
  options,              \* options hash of each DS.attr declaration
  cache,                \* computed-property cache of the record (meta.cache)
  event,                \* the didSetProperty event the state manager is handling
  notified,             \* number of didSetProperty events it has received
  writes,               \* number of writes of an attribute entered so far
  producerCalls,        \* number of invocations of the defaultValue function
  defaultedReads,       \* reads of a function-defaulted attribute no layer held
  pc,                   \* position inside the setter: "idle" or "sent"
  call,                 \* the operation performed last
  ret,                  \* what that operation returned
  fields,               \* the computed properties the class declares, in order
  metas,                \* the meta object of each declaration
  classCache,           \* computed-property cache of the class
  scans,                \* number of eachComputedProperty scans of the class
  maps,                 \* number of Ember.Map instances created
  returned,             \* the map instance the last operation returned
  visited               \* the callback invocations of the last iteration

recordVars == <<_attributes, _inFlightAttributes, _data, options, cache, event,
                notified, writes, producerCalls, defaultedReads, pc>>

classVars == <<fields, metas, classCache, scans, maps, returned, visited>>

vars == <<recordVars, classVars, call, ret>>

----------------------------------------------------------------------------
(* Bounds *)

MaxWrites == 3
MaxDefaultedReads == 2
MaxFields == 3
MaxScans == 2

----------------------------------------------------------------------------
(* JavaScript values *)

UNDEFINED == "undefined"
NULL == "null"
ABSENT == "<no own property>"
FUNCTION == "<function>"
NOCACHE == "<not cached>"
ERROR == "<Error thrown>"

\* the values written and pushed: two falsy ones (undefined, 0) and two
\* truthy ones
Val == {UNDEFINED, "0", "1", "2"}

Falsy(v) == v \in {UNDEFINED, NULL, "0", "false", ""}

\* x || y
Or(x, y) == IF Falsy(x) THEN y ELSE x

\* obj.hasOwnProperty(key)
hasOwnProperty(obj, key) == obj[key] # ABSENT

\* obj[key]: undefined when the object has no such property
Prop(obj, key) == IF obj[key] = ABSENT THEN UNDEFINED ELSE obj[key]

Keys == {"a", "b", "id"}

EmptyObject == [k \in Keys |-> ABSENT]

\* the n-th result of the defaultValue function: a fresh value on each call
ProducerResult(n) == "produced#" \o ToString(n)

PENDING == "<not returned yet>"
NOARG == "<no argument>"
\* the state manager is handling no event
NOEVENT ==
  [name |-> NOARG, oldValue |-> NOARG, originalValue |-> NOARG, value |-> NOARG]

----------------------------------------------------------------------------
(* Inputs *)

\* the declarations of attribute a: DS.attr(), DS.attr(t, {defaultValue: 1})
\* and DS.attr(t, {defaultValue: function() {...}})
DefaultChoices == {UNDEFINED, "1", FUNCTION}

\* get(record, key)
ReadInputs == {"a", "b"}

\* set(record, key, value)
WriteInputs == ({"a"} \X Val) \cup {<<"b", "1">>, <<"id", "1">>}

\* the hashes the store pushes into record._data
DataPayloads ==
  {d \in [Keys -> Val \cup {ABSENT}] : d["id"] = ABSENT /\ d["b"] \in {ABSENT, "1"}}

----------------------------------------------------------------------------
(* attributes.js, lines 207-229 *)

\* whether getDefaultValue calls options.defaultValue
IsProducer(key) == options[key].defaultValue = FUNCTION

\* a getDefaultValue that hands out options.defaultValue without calling it
getDefaultValueUncalled(key) == options[key].defaultValue

getDefaultValue(key) ==
  IF IsProducer(key)
  THEN ProducerResult(producerCalls + 1)
  ELSE options[key].defaultValue

hasValue(key) ==
  \/ hasOwnProperty(_attributes, key)
  \/ hasOwnProperty(_inFlightAttributes, key)
  \/ hasOwnProperty(_data, key)

\* a getValue that tests the values instead of the keys
getValueByTruthiness(key) ==
  Or(Or(Prop(_attributes, key), Prop(_inFlightAttributes, key)), Prop(_data, key))

\* a getValue that looks into the in-flight values first
getValueInFlightFirst(key) ==
  IF hasOwnProperty(_inFlightAttributes, key)
  THEN _inFlightAttributes[key]
  ELSE IF hasOwnProperty(_attributes, key)
       THEN _attributes[key]
       ELSE Prop(_data, key)

getValue(key) ==
  IF hasOwnProperty(_attributes, key)
  THEN _attributes[key]
  ELSE IF hasOwnProperty(_inFlightAttributes, key)
       THEN _inFlightAttributes[key]
       ELSE Prop(_data, key)

----------------------------------------------------------------------------
(* DS.attr, lines 265-291 *)

\* the getter branch of the computed function
attrGetter(key) ==
  IF hasValue(key) THEN getValue(key) ELSE getDefaultValue(key)

\* the computed property is cacheable: get(record, key) answers from
\* meta.cache when the key is cached and runs the function otherwise
IsCached(key) == cache[key] # NOCACHE

ComputedGet(key) == IF IsCached(key) THEN cache[key] ELSE attrGetter(key)

\* the function runs, no layer holds the key and defaultValue is a function
InvokesProducer(key) == ~IsCached(key) /\ ~hasValue(key) /\ IsProducer(key)

\* var oldValue = this._attributes[key] || this._inFlightAttributes[key] || this._data[key]
oldValueOf(key) ==
  Or(Or(Prop(_attributes, key), Prop(_inFlightAttributes, key)), Prop(_data, key))

\* an originalValue taken from the top-most layer
originalValueResolved(key) == getValue(key)

\* originalValue: this._data[key]
originalValueOf(key) == Prop(_data, key)

didSetProperty(key, value) ==
  [name |-> key, oldValue |-> oldValueOf(key),
   originalValue |-> originalValueOf(key), value |-> value]

\* the cache of a record that has computed nothing
EmptyCache == [k \in Keys |-> NOCACHE]

\* an attribute declared without .property('data'): the notification of
\* 'data' leaves the cached values in place
DataDidChangeUnobserved == cache

\* notifyPropertyChange('data'): every attribute depends on 'data', so the
\* cached value of each is dropped
DataDidChange == EmptyCache

\* a class object nothing has been asked of yet
NoMap == [id |-> 0, entries |-> <<>>]

InitClass(fs, ms) ==
  /\ fields = fs
  /\ metas = ms
  /\ classCache = [attributes |-> NoMap, transformedAttributes |-> NoMap]
  /\ scans = 0
  /\ maps = 0
  /\ returned = NoMap
  /\ visited = <<>>

InitRecord(dv) ==
  /\ _attributes = EmptyObject
  /\ _inFlightAttributes = EmptyObject
  /\ _data = EmptyObject
  /\ options = [k \in Keys |->
                  [defaultValue |-> IF k = "a" THEN dv ELSE UNDEFINED]]
  /\ cache = EmptyCache
  /\ event = NOEVENT
  /\ notified = 0
  /\ writes = 0
  /\ producerCalls = 0
  /\ defaultedReads = 0
  /\ pc = "idle"
  /\ call = [op |-> "create", key |-> NOARG, value |-> NOARG]
  /\ ret = UNDEFINED

\* the class of the record: App.Model = DS.Model.extend({a: DS.attr(...),
\* b: DS.attr(), id: DS.attr()})
RecordFields ==
  <<[name |-> "a", meta |-> "m1"], [name |-> "b", meta |-> "m2"],
    [name |-> "id", meta |-> "m3"]>>

RecordMetas ==
  [m \in {"m1", "m2", "m3"} |->
     [type |-> UNDEFINED, isAttribute |-> TRUE, name |-> UNDEFINED]]

Init ==
  /\ \E dv \in DefaultChoices : InitRecord(dv)
  /\ InitClass(RecordFields, RecordMetas)

\* a getter that keeps the default it computed as a local value
GetStoringDefault ==
  \E key \in ReadInputs :
    /\ pc = "idle"
    /\ (~hasValue(key) /\ IsProducer(key)) => defaultedReads < MaxDefaultedReads
    /\ ret' = ComputedGet(key)
    /\ cache' = [cache EXCEPT ![key] = ComputedGet(key)]
    /\ _attributes' = IF hasValue(key) THEN _attributes
                      ELSE [_attributes EXCEPT ![key] = ComputedGet(key)]
    /\ producerCalls' =
         IF InvokesProducer(key) THEN producerCalls + 1 ELSE producerCalls
    /\ defaultedReads' =
         IF ~hasValue(key) /\ IsProducer(key)
         THEN defaultedReads + 1 ELSE defaultedReads
    /\ call' = [op |-> "get", key |-> key, value |-> NOARG]
    /\ UNCHANGED classVars
    /\ UNCHANGED <<_inFlightAttributes, _data, options, event,
                   notified, writes, pc>>

\* get(record, key)
Get ==
  \E key \in ReadInputs :
    /\ pc = "idle"
    /\ (~hasValue(key) /\ IsProducer(key)) => defaultedReads < MaxDefaultedReads
    /\ ret' = ComputedGet(key)
    /\ cache' = [cache EXCEPT ![key] = ComputedGet(key)]
    /\ producerCalls' =
         IF InvokesProducer(key) THEN producerCalls + 1 ELSE producerCalls
    /\ defaultedReads' =
         IF ~hasValue(key) /\ IsProducer(key)
         THEN defaultedReads + 1 ELSE defaultedReads
    /\ call' = [op |-> "get", key |-> key, value |-> NOARG]
    /\ UNCHANGED classVars
    /\ UNCHANGED <<_attributes, _inFlightAttributes, _data, options, event,
                   notified, writes, pc>>

\* a setter without the assertion: id is written like any attribute
SetIdUnchecked ==
  \E in \in WriteInputs :
    /\ pc = "idle"
    /\ in[1] = "id"
    /\ notified' = notified + 1
    /\ _attributes' = [_attributes EXCEPT ![in[1]] = in[2]]
    /\ cache' = [cache EXCEPT ![in[1]] = in[2]]
    /\ call' = [op |-> "set", key |-> in[1], value |-> in[2]]
    /\ UNCHANGED classVars
    /\ ret' = in[2]
    /\ UNCHANGED <<_inFlightAttributes, _data, options, event, writes,
                   producerCalls, defaultedReads, pc>>

\* set(record, 'id', value): Ember.assert throws, nothing has been done yet
SetId ==
  \E in \in WriteInputs :
    /\ pc = "idle"
    /\ in[1] = "id"
    /\ call' = [op |-> "set", key |-> in[1], value |-> in[2]]
    /\ UNCHANGED classVars
    /\ ret' = ERROR
    /\ UNCHANGED <<_attributes, _inFlightAttributes, _data, options, cache,
                   event, notified, writes, producerCalls, defaultedReads, pc>>

\* a setter that stores before it sends didSetProperty
SetSendAfterStore ==
  \E in \in WriteInputs :
    /\ pc = "idle"
    /\ in[1] # "id"
    /\ writes < MaxWrites
    /\ writes' = writes + 1
    /\ _attributes' = [_attributes EXCEPT ![in[1]] = in[2]]
    /\ event' = didSetProperty(in[1], in[2])
    /\ notified' = notified + 1
    /\ pc' = "sent"
    /\ call' = [op |-> "set", key |-> in[1], value |-> in[2]]
    /\ UNCHANGED classVars
    /\ ret' = PENDING
    /\ UNCHANGED <<_inFlightAttributes, _data, options, cache,
                   producerCalls, defaultedReads>>

\* a setter that returns early when the value equals oldValue
SetSendUnlessEqual ==
  \E in \in WriteInputs :
    /\ pc = "idle"
    /\ in[1] # "id"
    /\ writes < MaxWrites
    /\ writes' = writes + 1
    /\ call' = [op |-> "set", key |-> in[1], value |-> in[2]]
    /\ UNCHANGED classVars
    /\ IF in[2] = oldValueOf(in[1])
       THEN /\ ret' = in[2]
            /\ UNCHANGED <<event, notified, pc>>
       ELSE /\ event' = didSetProperty(in[1], in[2])
            /\ notified' = notified + 1
            /\ pc' = "sent"
            /\ ret' = PENDING
    /\ UNCHANGED <<_attributes, _inFlightAttributes, _data, options, cache,
                   producerCalls, defaultedReads>>

\* set(record, key, value), lines 275-278: the assertion passes, oldValue is
\* computed and the state manager receives didSetProperty
SetSend ==
  \E in \in WriteInputs :
    /\ pc = "idle"
    /\ in[1] # "id"
    /\ writes < MaxWrites
    /\ writes' = writes + 1
    /\ event' = didSetProperty(in[1], in[2])
    /\ notified' = notified + 1
    /\ pc' = "sent"
    /\ call' = [op |-> "set", key |-> in[1], value |-> in[2]]
    /\ UNCHANGED classVars
    /\ ret' = PENDING
    /\ UNCHANGED <<_attributes, _inFlightAttributes, _data, options, cache,
                   producerCalls, defaultedReads>>

\* a setter that stores the value and falls off its end without returning it
SetStoreNoReturn ==
  /\ pc = "sent"
  /\ _attributes' = [_attributes EXCEPT ![call.key] = call.value]
  /\ cache' = [cache EXCEPT ![call.key] = UNDEFINED]
  /\ ret' = UNDEFINED
  /\ event' = NOEVENT
  /\ pc' = "idle"
  /\ UNCHANGED <<_inFlightAttributes, _data, options, notified, writes,
                 producerCalls, defaultedReads, call>>
  /\ UNCHANGED classVars

\* a setter that also writes the value through to _data
SetStoreThrough ==
  /\ pc = "sent"
  /\ _attributes' = [_attributes EXCEPT ![call.key] = call.value]
  /\ _data' = [_data EXCEPT ![call.key] = call.value]
  /\ cache' = [cache EXCEPT ![call.key] = call.value]
  /\ ret' = call.value
  /\ event' = NOEVENT
  /\ pc' = "idle"
  /\ UNCHANGED <<_inFlightAttributes, options, notified, writes,
                 producerCalls, defaultedReads, call>>
  /\ UNCHANGED classVars

\* lines 279-280 once the handler has returned: the value is stored, the
\* function returns it and the computed property caches it
SetStore ==
  /\ pc = "sent"
  /\ _attributes' = [_attributes EXCEPT ![call.key] = call.value]
  /\ cache' = [cache EXCEPT ![call.key] = call.value]
  /\ ret' = call.value
  /\ event' = NOEVENT
  /\ pc' = "idle"
  /\ UNCHANGED <<_inFlightAttributes, _data, options, notified, writes,
                 producerCalls, defaultedReads, call>>
  /\ UNCHANGED classVars

----------------------------------------------------------------------------
(* The record's collaborators: the store and the state manager *)

External == [op |-> "external", key |-> NOARG, value |-> NOARG]

\* a fetch lands: _data is replaced wholesale and 'data' is notified
SetupData ==
  \E d \in DataPayloads :
    /\ pc = "idle"
    /\ _data' = d
    /\ cache' = DataDidChange
    /\ call' = External
    /\ UNCHANGED classVars
    /\ ret' = UNDEFINED
    /\ UNCHANGED <<_attributes, _inFlightAttributes, options, event, notified,
                   writes,
                   producerCalls, defaultedReads, pc>>

\* a save begins: the local edits become the in-flight snapshot
WillCommit ==
  /\ pc = "idle"
  /\ _inFlightAttributes = EmptyObject
  /\ _attributes # EmptyObject
  /\ _inFlightAttributes' = _attributes
  /\ _attributes' = EmptyObject
  /\ call' = External
  /\ UNCHANGED classVars
  /\ ret' = UNDEFINED
  /\ UNCHANGED <<_data, options, cache, event, notified, writes, producerCalls,
                 defaultedReads, pc>>

\* the save is acknowledged: the snapshot is merged into _data
DidCommit ==
  /\ pc = "idle"
  /\ _inFlightAttributes # EmptyObject
  /\ _data' = [k \in Keys |-> IF hasOwnProperty(_inFlightAttributes, k)
                              THEN _inFlightAttributes[k] ELSE _data[k]]
  /\ _inFlightAttributes' = EmptyObject
  /\ cache' = DataDidChange
  /\ call' = External
  /\ UNCHANGED classVars
  /\ ret' = UNDEFINED
  /\ UNCHANGED <<_attributes, options, event, notified,
                   writes, producerCalls,
                 defaultedReads, pc>>

\* the edits are rolled back; after a failed save the snapshot goes too
Rollback ==
  \E failed \in BOOLEAN :
    /\ pc = "idle"
    /\ _attributes # EmptyObject \/ (failed /\ _inFlightAttributes # EmptyObject)
    /\ _attributes' = EmptyObject
    /\ _inFlightAttributes' = IF failed THEN EmptyObject ELSE _inFlightAttributes
    /\ cache' = DataDidChange
    /\ call' = External
    /\ UNCHANGED classVars
    /\ ret' = UNDEFINED
    /\ UNCHANGED <<_data, options, event, notified,
                   writes, producerCalls,
                   defaultedReads, pc>>

Next ==
  \/ Get
  \/ SetId
  \/ SetSend
  \/ SetStore
  \/ SetupData
  \/ WillCommit
  \/ DidCommit
  \/ Rollback

Spec == Init /\ [][Next]_vars

TypeOK ==
  /\ pc \in {"idle", "sent"}
  /\ notified <= MaxWrites
  /\ producerCalls <= defaultedReads

----------------------------------------------------------------------------
(* The attribute registry of a class, lines 13-198 *)

FieldNames == {"a", "b", "c", "id"}
MetaIds == {"m1", "m2"}
TypeChoices == {UNDEFINED, "", "string"}

\* the classes: up to MaxFields computed properties with distinct names,
\* each declared with one of two descriptors (DS.attr(type) or a plain
\* computed property); a descriptor may be used for several fields
ClassFields ==
  UNION {{f \in [1..n -> [name : FieldNames, meta : MetaIds]] :
            \A i, j \in 1..n : i # j => f[i].name # f[j].name} :
         n \in 0..MaxFields}

ClassMetas ==
  [MetaIds -> [type : TypeChoices, isAttribute : BOOLEAN, name : {UNDEFINED}]]

\* Ember.Map set: a new key goes last, a known key keeps its place
MapSet(entries, key, value) ==
  IF \E i \in 1..Len(entries) : entries[i].key = key
  THEN [i \in 1..Len(entries) |->
          IF entries[i].key = key THEN [key |-> key, value |-> value]
          ELSE entries[i]]
  ELSE Append(entries, [key |-> key, value |-> value])

\* a scan that lets an attribute named id into the map
RECURSIVE ScanUnchecked(_, _)
ScanUnchecked(i, acc) ==
  IF i > Len(fields) THEN acc
  ELSE IF ~acc.metas[fields[i].meta].isAttribute THEN ScanUnchecked(i + 1, acc)
  ELSE ScanUnchecked(i + 1,
         [entries |-> MapSet(acc.entries, fields[i].name, fields[i].meta),
          metas |-> [acc.metas EXCEPT ![fields[i].meta].name = fields[i].name],
          failed |-> FALSE])

\* lines 49-56: eachComputedProperty from the i-th declared property on;
\* the assertion throws at an attribute named id and the scan stops there
RECURSIVE Scan(_, _)
Scan(i, acc) ==
  IF i > Len(fields) \/ acc.failed THEN acc
  ELSE IF ~acc.metas[fields[i].meta].isAttribute THEN Scan(i + 1, acc)
  ELSE IF fields[i].name = "id" THEN [acc EXCEPT !.failed = TRUE]
  ELSE Scan(i + 1,
         [entries |-> MapSet(acc.entries, fields[i].name, fields[i].meta),
          metas |-> [acc.metas EXCEPT ![fields[i].meta].name = fields[i].name],
          failed |-> FALSE])

IsCachedOnClass(prop) == classCache[prop].id # 0

\* a computed property of the class that forgets what it computed
CacheOnClassNever(c, prop, map) == c

\* the class-level computed property keeps the map its function returned
CacheOnClass(c, prop, map) == [c EXCEPT ![prop] = map]

\* get(this, 'attributes'), lines 46-59, when n maps exist: the cached
\* map, or a new map filled by a scan and cached unless the scan threw
Attributes(n) ==
  IF IsCachedOnClass("attributes")
  THEN [failed |-> FALSE, map |-> classCache.attributes, metas |-> metas,
        cache |-> classCache, scans |-> scans, maps |-> n]
  ELSE LET r == Scan(1, [entries |-> <<>>, metas |-> metas, failed |-> FALSE])
           map == [id |-> n + 1, entries |-> r.entries]
       IN [failed |-> r.failed,
           map |-> IF r.failed THEN NoMap ELSE map,
           metas |-> r.metas,
           cache |-> IF r.failed THEN classCache
                     ELSE CacheOnClass(classCache, "attributes", map),
           scans |-> scans + 1,
           maps |-> n + 1]

\* a scan is needed and allowed
CanScan == IsCachedOnClass("attributes") \/ scans < MaxScans

\* a filter that only drops the attributes whose type is undefined
RECURSIVE TransformedUnlessUndefined(_, _, _, _)
TransformedUnlessUndefined(entries, ms, i, acc) ==
  IF i > Len(entries) THEN acc
  ELSE TransformedUnlessUndefined(entries, ms, i + 1,
         IF ms[entries[i].value].type # UNDEFINED
         THEN MapSet(acc, entries[i].key, ms[entries[i].value].type)
         ELSE acc)

\* lines 95-99 over the entries of the attribute map from the i-th on
RECURSIVE Transformed(_, _, _, _)
Transformed(entries, ms, i, acc) ==
  IF i > Len(entries) THEN acc
  ELSE Transformed(entries, ms, i + 1,
         IF ~Falsy(ms[entries[i].value].type)
         THEN MapSet(acc, entries[i].key, ms[entries[i].value].type)
         ELSE acc)

\* get(this, 'transformedAttributes'), lines 92-102: the cached map, or a
\* new map filled from eachAttribute and cached unless that threw
TransformedAttributes ==
  IF IsCachedOnClass("transformedAttributes")
  THEN [failed |-> FALSE, map |-> classCache.transformedAttributes,
        metas |-> metas, cache |-> classCache, scans |-> scans, maps |-> maps]
  ELSE LET a == Attributes(maps + 1)
           map == [id |-> maps + 1,
                   entries |-> Transformed(a.map.entries, a.metas, 1, <<>>)]
       IN [failed |-> a.failed,
           map |-> IF a.failed THEN NoMap ELSE map,
           metas |-> a.metas,
           cache |-> IF a.failed THEN a.cache
                     ELSE CacheOnClass(a.cache, "transformedAttributes", map),
           scans |-> a.scans,
           maps |-> a.maps]

\* an iteration that hands the callback its arguments the other way round
VisitsValueFirst(entries) ==
  [i \in 1..Len(entries) |-> [name |-> entries[i].value, arg |-> entries[i].key]]

\* map.forEach(function(value, key) { callback.call(binding, key, value) })
Visits(entries) ==
  [i \in 1..Len(entries) |-> [name |-> entries[i].key, arg |-> entries[i].value]]

ClassCall(op) == [op |-> op, key |-> NOARG, value |-> NOARG]

\* what an operation on the class leaves behind: r is what the computed
\* property yielded, iterates says whether the map is walked or returned
ClassOp(op, r, iterates) ==
  /\ call' = ClassCall(op)
  /\ ret' = IF r.failed THEN ERROR ELSE IF iterates THEN UNDEFINED ELSE "<Ember.Map>"
  /\ returned' = IF r.failed \/ iterates THEN NoMap ELSE r.map
  /\ visited' = IF r.failed \/ ~iterates THEN <<>> ELSE Visits(r.map.entries)
  /\ metas' = r.metas
  /\ classCache' = r.cache
  /\ scans' = r.scans
  /\ maps' = r.maps
  /\ UNCHANGED <<fields, recordVars>>

\* get(Class, 'attributes')
GetAttributes ==
  /\ CanScan
  /\ ClassOp("attributes", Attributes(maps), FALSE)

\* Class.eachAttribute(callback, binding), lines 145-149
EachAttribute ==
  /\ CanScan
  /\ ClassOp("eachAttribute", Attributes(maps), TRUE)

\* get(Class, 'transformedAttributes')
GetTransformedAttributes ==
  /\ IsCachedOnClass("transformedAttributes") \/ CanScan
  /\ ClassOp("transformedAttributes", TransformedAttributes, FALSE)

\* Class.eachTransformedAttribute(callback, binding), lines 193-197
EachTransformedAttribute ==
  /\ IsCachedOnClass("transformedAttributes") \/ CanScan
  /\ ClassOp("eachTransformedAttribute", TransformedAttributes, TRUE)

InitRegistry ==
  /\ InitRecord(UNDEFINED)
  /\ \E fs \in ClassFields : \E ms \in ClassMetas : InitClass(fs, ms)

NextRegistry ==
  \/ GetAttributes
  \/ EachAttribute
  \/ GetTransformedAttributes
  \/ EachTransformedAttribute

SpecRegistry == InitRegistry /\ [][NextRegistry]_vars

----------------------------------------------------------------------------
(* Value resolution: properties of get and set *)

\* some layer holds the key (the key exists, whatever the value)
Held(key) ==
  _attributes[key] # ABSENT \/ _inFlightAttributes[key] # ABSENT \/ _data[key] # ABSENT

\* the value of the top-most layer that holds the key
TopMost(key) ==
  IF _attributes[key] # ABSENT THEN _attributes[key]
  ELSE IF _inFlightAttributes[key] # ABSENT THEN _inFlightAttributes[key]
  ELSE _data[key]

Produced == {ProducerResult(n) : n \in 1..producerCalls}

\* C1: a read returns the value of the top-most layer in which the key
\* exists (local, then inFlight, then persisted), also when that value is
\* falsy, and the attribute's default when the key exists in no layer.
C1_ReadPrecedence ==
  (pc = "idle" /\ call.op = "get") =>
     IF Held(call.key) THEN ret = TopMost(call.key)
     ELSE IF options[call.key].defaultValue = FUNCTION THEN ret \in Produced
     ELSE ret = options[call.key].defaultValue

C1_Witness ==
  /\ call.op = "get" /\ call.key = "a"
  /\ _attributes["a"] = "0" /\ _inFlightAttributes["a"] = "2" /\ _data["a"] = "1"
  /\ ret = "0"

\* C2: the oldValue of the event equals what a read of the attribute would
\* have returned just before the write (while the event is being handled
\* the layers and the cache are still those the write found).
C2_OldValueIsRead ==
  pc = "sent" => event.oldValue = ComputedGet(call.key)

\* C3: didSetProperty reaches the state manager before the store: the step
\* that delivers the event leaves local untouched, and local[a] takes the
\* new value in the step in which the handler returns.
C3_NotifyBeforeStore ==
  [][ /\ (pc = "idle" /\ pc' = "sent") =>
           /\ notified' = notified + 1
           /\ event' # NOEVENT
           /\ event'.name = call'.key /\ event'.value = call'.value
           /\ _attributes' = _attributes
      /\ (pc = "sent" /\ pc' = "idle") =>
           /\ notified' = notified
           /\ _attributes' = [_attributes EXCEPT ![call.key] = call.value] ]_vars

C3_Witness ==
  /\ pc = "sent" /\ event # NOEVENT
  /\ event.name = "a" /\ event.value = "2"
  /\ _attributes["a"] = "1"

\* C4: every write of an attribute other than id delivers exactly one event,
\* the event of that write, and then stores the value, also when the value
\* equals the old value: n writes have delivered n events, none pending
\* outside the write that emits it.
C4_OneEventPerWrite ==
  /\ notified = writes
  /\ (pc = "sent") <=> (event # NOEVENT)
  /\ pc = "sent" => (event.name = call.key /\ event.value = call.value)
  /\ (pc = "idle" /\ call.op = "set" /\ call.key # "id") =>
        (ret = call.value /\ _attributes[call.key] = call.value)

C4_Witness ==
  /\ pc = "sent" /\ notified = 2 /\ writes = 2
  /\ event.value = event.oldValue
  /\ _attributes[call.key] = call.value

\* C5: the originalValue of the event is persisted[a] at the time of the
\* write, undefined when persisted has no key a, whatever local and inFlight
\* hold.
C5_OriginalValueIsPersisted ==
  pc = "sent" =>
     event.originalValue =
        (IF _data[call.key] = ABSENT THEN UNDEFINED ELSE _data[call.key])

C5_Witness ==
  /\ pc = "sent" /\ writes = 3
  /\ _attributes["a"] = "2" /\ _inFlightAttributes["a"] = "0" /\ _data["a"] = "1"
  /\ event.name = "a" /\ event.originalValue = "1"

\* C6: a write of v returns v, and a read made right after it returns v,
\* whatever persisted and inFlight hold.
C6_WriteThenRead ==
  (pc = "idle" /\ call.op = "set" /\ ret # ERROR) =>
     /\ ret = call.value
     /\ ComputedGet(call.key) = call.value
     /\ attrGetter(call.key) = call.value

C6_Witness ==
  /\ pc = "idle" /\ call.op = "set" /\ call.key = "a" /\ call.value = UNDEFINED
  /\ ret = UNDEFINED
  /\ _inFlightAttributes["a"] = "2" /\ _data["a"] = "1"

\* C7: a write to id throws: it delivers no event and leaves the three
\* layers as they were.
C7_IdWriteRejected ==
  [][ (call'.op = "set" /\ call'.key = "id") =>
         /\ ret' = ERROR
         /\ notified' = notified /\ event' = event
         /\ UNCHANGED <<_attributes, _inFlightAttributes, _data>> ]_vars

C7_Witness ==
  /\ call.op = "set" /\ call.key = "id" /\ ret = ERROR
  /\ _attributes["a"] # ABSENT /\ _data["a"] # ABSENT
  /\ _attributes["id"] = ABSENT

\* C9 as claimed: every read of an attribute that no layer holds invokes the
\* defaultValue function, so k such reads have invoked it k times.
C9_ProducerCalledOnEveryRead ==
  producerCalls = defaultedReads

\* C9 as amended: a read of an attribute that no layer holds runs the getter
\* only when the attribute is not cached; it then calls the defaultValue
\* function once and returns its result, or returns the literal; a cached
\* attribute is answered from the cache without calling the function.
C9_DefaultComputedWhenNotCached ==
  [][ (call'.op = "get" /\ ~Held(call'.key)) =>
         IF cache[call'.key] # NOCACHE
         THEN ret' = cache[call'.key] /\ producerCalls' = producerCalls
         ELSE IF options[call'.key].defaultValue = FUNCTION
              THEN /\ producerCalls' = producerCalls + 1
                   /\ ret' = ProducerResult(producerCalls + 1)
              ELSE /\ producerCalls' = producerCalls
                   /\ ret' = options[call'.key].defaultValue ]_vars

C9_Witness ==
  /\ call.op = "get" /\ call.key = "a" /\ ~Held("a")
  /\ defaultedReads = 2 /\ producerCalls = 1
  /\ ret = ProducerResult(1)

----------------------------------------------------------------------------
(* Attribute registry: properties of the class-level operations *)

ClassOps ==
  {"attributes", "eachAttribute", "transformedAttributes",
   "eachTransformedAttribute"}

\* the class declares id: DS.attr(...)
DeclaresIdAttribute ==
  \E i \in 1..Len(fields) :
     fields[i].name = "id" /\ metas[fields[i].meta].isAttribute

HasKey(map, key) == \E i \in 1..Len(map.entries) : map.entries[i].key = key

\* C8: building the registry of a class that declares id as an attribute
\* throws, and no map with the key id is returned or cached; the build of a
\* class without such an attribute succeeds.
C8_IdAttributeRejected ==
  /\ ~HasKey(classCache.attributes, "id")
  /\ ~HasKey(classCache.transformedAttributes, "id")
  /\ ~HasKey(returned, "id")
  /\ DeclaresIdAttribute =>
        /\ classCache.attributes = NoMap
        /\ returned = NoMap
        /\ call.op \in ClassOps => ret = ERROR
  /\ (~DeclaresIdAttribute /\ call.op \in ClassOps) => ret # ERROR
  /\ (~DeclaresIdAttribute /\ call.op = "attributes") =>
        (returned # NoMap /\ returned = classCache.attributes)

C8_Witness ==
  /\ DeclaresIdAttribute /\ Len(fields) = 3 /\ fields[3].name = "id"
  /\ call.op = "attributes" /\ ret = ERROR
  /\ scans = 2

\* C10: the registry is computed once: the first access that succeeds scans
\* the class and caches the map, and from then on no access scans again and
\* every access to attributes returns that same map instance.
C10_RegistryComputedOnce ==
  [][ /\ ~DeclaresIdAttribute => scans' <= 1
      /\ (call'.op \in ClassOps /\ ret' # ERROR) => IsCachedOnClass("attributes")'
      /\ (call'.op = "attributes" /\ ret' # ERROR) =>
            returned' = classCache'.attributes
      /\ IsCachedOnClass("attributes") =>
            /\ scans' = scans
            /\ classCache'.attributes = classCache.attributes ]_vars

C10_Witness ==
  /\ call.op = "attributes" /\ returned = classCache.attributes
  /\ Len(returned.entries) = 2
  /\ classCache.transformedAttributes.id = 1
  /\ returned.id = 2
  /\ scans = 1

\* the fields declared with DS.attr, in declaration order
DeclaredAttributes ==
  LET IsAttribute(f) == metas[f.meta].isAttribute
  IN SelectSeq(fields, IsAttribute)

TypedAttributes ==
  LET IsTyped(f) == metas[f.meta].type \notin {UNDEFINED, ""}
  IN SelectSeq(DeclaredAttributes, IsTyped)

TypedEntries ==
  [i \in 1..Len(TypedAttributes) |->
     [key |-> TypedAttributes[i].name,
      value |-> metas[TypedAttributes[i].meta].type]]

C17_MetaNameIsKey ==
  LET es == classCache.attributes.entries
  IN /\ \A i \in 1..Len(es) : metas[es[i].value].name = es[i].key
     /\ \A i, j \in 1..Len(es) : es[i].key = es[j].key => i = j

----------------------------------------------------------------------------
(* Value resolution: reads across transitions, frame conditions *)

C14_DataInvalidatesCache ==
  [][ /\ _data' # _data => cache' = EmptyCache
      /\ (call'.op = "get" /\ ~IsCached(call'.key) /\ Held(call'.key)) =>
            ret' = TopMost(call'.key)
      /\ (call'.op = "get" /\ ~IsCached(call'.key)
            /\ _attributes[call'.key] = ABSENT
            /\ _inFlightAttributes[call'.key] = ABSENT
            /\ _data[call'.key] # ABSENT) =>
            ret' = _data[call'.key] ]_vars

C14_Witness ==
  /\ call.op = "external"
  /\ cache = EmptyCache
  /\ _data["a"] = "2" /\ _data["b"] = "1"
  /\ _attributes = EmptyObject /\ _inFlightAttributes = EmptyObject
  /\ defaultedReads = 1 /\ producerCalls = 1

\* C15: a write of a changes the entry local[a] and nothing else in the
\* layers: persisted, inFlight and the other local entries stay as they
\* are, and no get or set touches persisted or inFlight.
C15_WriteFrame ==
  [][ /\ call'.op \in {"get", "set"} =>
            UNCHANGED <<_inFlightAttributes, _data>>
      /\ (pc = "sent" /\ pc' = "idle") =>
            /\ _attributes'[call.key] = call.value
            /\ \A b \in Keys \ {call.key} : _attributes'[b] = _attributes[b] ]_vars

C15_Witness ==
  /\ pc = "idle" /\ call.op = "set" /\ call.key = "a" /\ call.value = "2"
  /\ _attributes["a"] = "2" /\ _attributes["b"] = "1"
  /\ _inFlightAttributes["a"] = "0" /\ _data["a"] = "1"

\* C16: a read does not throw, delivers no didSetProperty event and leaves
\* the three layers as they are; a read that falls through to the default
\* stores it in no layer.
C16_ReadFrame ==
  [][ call'.op = "get" =>
         /\ ret' # ERROR
         /\ notified' = notified /\ event' = event
         /\ UNCHANGED <<_attributes, _inFlightAttributes, _data>>
         /\ ~Held(call'.key) =>
               /\ _attributes'[call'.key] = ABSENT
               /\ _inFlightAttributes'[call'.key] = ABSENT
               /\ _data'[call'.key] = ABSENT ]_vars

C16_Witness ==
  /\ call.op = "get" /\ call.key = "a" /\ ~Held("a")
  /\ options["a"].defaultValue = "1" /\ ret = "1"
  /\ cache["a"] = "1"
  /\ writes = 1

====
